---- MODULE Spec2Model ----
(***************************************************************************)
(* Model of git_lib: GitRepo (git_lib/src/repo.rs) over the command layer  *)
(* Git (git_lib/src/git.rs).  The filesystem and the external git          *)
(* executable are the environment; every GitRepo operation is translated   *)
(* from its code as a function  (filesystem, arguments, environment) ->    *)
(* (filesystem, result, commands invoked).                                 *)
(***************************************************************************)
EXTENDS Naturals, Sequences, FiniteSets, TLC

VARIABLES
    fs,            \* the filesystem: node -> directory state
    pre,           \* the filesystem when the last operation (or batch item) started
    call,          \* the last operation called, with its arguments and environment
    result,        \* what the last operation returned (or that it panicked)
    cmds,          \* external git commands the last operation (or batch item) invoked
    remote_urls,   \* from_url_multi: argument remote_urls
    to_root_path,  \* from_url_multi: argument to_root_path
    repo_results,  \* from_url_multi: the local vector repo_results
    pc             \* from_url_multi: "idle", "loop", "returned" or "panicked"

vars == <<fs, pre, call, result, cmds, remote_urls, to_root_path, repo_results, pc>>

\* Longest batch handed to from_url_multi.
MaxBatch == 2

(***************************************************************************)
(* Paths.  A path is the sequence of its components; it is absolute when   *)
(* it starts at "/".  Relative paths are resolved against the process's    *)
(* working directory Cwd.                                                  *)
(***************************************************************************)
Cwd == <<"/", "w">>

\* The directories the model tracks: the working directory and one
\* subdirectory per repository name.
Nodes == {Cwd, Cwd \o <<"git_repo">>, Cwd \o <<"actions">>}

\* Paths handed to the single operations: absolute, relative, and one with '~'.
SinglePaths ==
    { Cwd, Cwd \o <<"git_repo">>, <<".", "git_repo">>, <<"~", "git_repo">> }

\* Destination roots handed to from_url_multi.
RootPaths == { Cwd, <<".">>, <<"~">> }

\* Option<T>: None is <<>>, Some(x) is <<x>>.
None == <<>>
Some(x) == <<x>>

NoPath == <<>>

IsPrefix(a, b) == Len(a) <= Len(b) /\ SubSeq(b, 1, Len(a)) = a

\* Path::join with a relative component.
Join(p, name) == Append(p, name)

\* to_path.to_string_lossy().to_string().contains('~')
\* (variant: the assertion is missing)
ContainsTildeNever(p) == FALSE

ContainsTilde(p) == \E i \in 1..Len(p) : p[i] = "~"

IsAbsolute(p) == Len(p) > 0 /\ p[1] = "/"

NotDot(c) == c # "."

\* The absolute, normalised form of p: made absolute against Cwd, "." removed.
AbsoluteKeepDots(p) == IF IsAbsolute(p) THEN p ELSE Cwd \o p

Absolute(p) == SelectSeq(IF IsAbsolute(p) THEN p ELSE Cwd \o p, NotDot)

(***************************************************************************)
(* Filesystem.                                                             *)
(***************************************************************************)
AbsentNode == [exists |-> FALSE, files |-> FALSE, repo |-> FALSE, origin |-> None]
EmptyDir   == [exists |-> TRUE,  files |-> FALSE, repo |-> FALSE, origin |-> None]

Exists(f, p) == Absolute(p) \in Nodes /\ f[Absolute(p)].exists

\* A directory is non-empty when it holds files, a .git directory or a subdirectory.
NonEmpty(f, n) ==
    \/ f[n].files
    \/ f[n].repo
    \/ \E m \in Nodes : m # n /\ IsPrefix(n, m) /\ f[m].exists

\* io: the process may create and remove directories below Cwd's parent.
\* git: "absent" the executable cannot be spawned; "fails" it runs and a
\* clone exits non-zero; "ok" it runs and a clone that can succeed does.
Envs ==
    { [io |-> TRUE, git |-> "ok"], [io |-> TRUE, git |-> "fails"],
      [io |-> TRUE, git |-> "absent"], [io |-> FALSE, git |-> "ok"] }

\* fs::create_dir_all: creates p and every missing ancestor.
CreateDirAll(f, p, env) ==
    IF env.io /\ Absolute(p) \in Nodes
    THEN [ok |-> TRUE,
          fs |-> [n \in Nodes |->
                    IF IsPrefix(n, Absolute(p)) /\ ~f[n].exists THEN EmptyDir ELSE f[n]]]
    ELSE [ok |-> FALSE, fs |-> f]

\* fs::remove_dir_all: removes p and everything below it.
RemoveDirAll(f, p, env) ==
    IF env.io /\ Absolute(p) \in Nodes
    THEN [ok |-> TRUE,
          fs |-> [n \in Nodes |-> IF IsPrefix(Absolute(p), n) THEN AbsentNode ELSE f[n]]]
    ELSE [ok |-> FALSE, fs |-> f]

\* Path::canonicalize / fs::canonicalize: fails unless the path exists.
\* (variant: a missing path is not an error)
CanonicalizeNoCheck(f, p) == [ok |-> TRUE, path |-> Absolute(p)]

\* (variant: the path is made absolute but not normalised)
CanonicalizeRaw(f, p) ==
    IF Exists(f, p) THEN [ok |-> TRUE, path |-> AbsoluteKeepDots(p)]
    ELSE [ok |-> FALSE, path |-> NoPath]

Canonicalize(f, p) ==
    IF Exists(f, p) THEN [ok |-> TRUE, path |-> Absolute(p)]
    ELSE [ok |-> FALSE, path |-> NoPath]

(***************************************************************************)
(* Remote references and the URI normaliser (git_url_parse behind          *)
(* Git::parse_uri), given by its results on representative remotes.        *)
(***************************************************************************)
REPO_CLONE_HTTPS == "https://github.com/pitoniak32/git_repo.git"
REPO_CLONE_SSH   == "git@github.com:pitoniak32/git_repo.git"
REPO_ACTIONS     == "https://github.com/pitoniak32/actions.git"
REPO_LOCAL       == "../actions"
REPO_UNSPECIFIED == "unspecified://github.com/pitoniak32/actions.git"
NOT_A_URL        == "not a url"

Remotes ==
    { REPO_CLONE_HTTPS, REPO_CLONE_SSH, REPO_ACTIONS, REPO_LOCAL,
      REPO_UNSPECIFIED, NOT_A_URL }

\* The remotes handed to the single operations and to from_url_multi.
SingleRemotes == { REPO_CLONE_HTTPS, REPO_LOCAL }
MultiRemotes == { REPO_CLONE_HTTPS, REPO_CLONE_SSH, REPO_UNSPECIFIED, NOT_A_URL }

\* The variants of git_uri::Scheme, by their kebab-case names.
Schemes ==
    { "file", "ftp", "ftps", "git", "git+ssh", "http", "https", "ssh", "unspecified" }

\* The schemes the git executable has a transport for.
GitTransportable == Schemes \ {"unspecified"}

ParseOk(name, scheme) == [ok |-> TRUE, name |-> name, scheme |-> scheme]
ParseErr == [ok |-> FALSE, name |-> "", scheme |-> "unspecified"]

\* Git::parse_uri: Ok(GitUri) with the repository name and the scheme, or Err.
ParseUri(url) ==
    CASE url = REPO_CLONE_HTTPS -> ParseOk("git_repo", "https")
      [] url = REPO_CLONE_SSH   -> ParseOk("git_repo", "ssh")
      [] url = REPO_ACTIONS     -> ParseOk("actions", "https")
      [] url = REPO_LOCAL       -> ParseOk("actions", "file")
      [] url = REPO_UNSPECIFIED -> ParseOk("actions", "unspecified")
      [] OTHER                  -> ParseErr

\* The URL git records for origin when it clones `url` from directory Cwd:
\* the string it was given, except that a local path is made absolute.
GitReports(url) == IF url = REPO_LOCAL THEN "/actions" ELSE url

(***************************************************************************)
(* The external git executable (git_lib/src/git.rs).                       *)
(***************************************************************************)
\* A command's stdout, as its sequence of tokens; "\n" is whitespace.
IsSpace(t) == t = "\n" \/ t = " "

RECURSIVE TrimStart(_)
TrimStart(s) ==
    IF s # <<>> /\ IsSpace(Head(s)) THEN TrimStart(Tail(s)) ELSE s

RECURSIVE TrimEnd(_)
TrimEnd(s) ==
    IF s # <<>> /\ IsSpace(s[Len(s)]) THEN TrimEnd(SubSeq(s, 1, Len(s) - 1)) ELSE s

\* str::trim
Trim(s) == TrimEnd(TrimStart(s))

\* str::parse::<bool>
ParseBool(s) ==
    CASE s = <<"true">>  -> [ok |-> TRUE, value |-> TRUE]
      [] s = <<"false">> -> [ok |-> TRUE, value |-> FALSE]
      [] OTHER           -> [ok |-> FALSE, value |-> FALSE]

\* p lies in a Git working tree: p or a directory above it holds a .git.
InsideWorktree(f, p) ==
    \E n \in Nodes : IsPrefix(n, Absolute(p)) /\ f[n].exists /\ f[n].repo

\* The root of the working tree p lies in (the nearest one).
WorktreeRoot(f, p) ==
    CHOOSE n \in Nodes :
        /\ IsPrefix(n, Absolute(p)) /\ f[n].exists /\ f[n].repo
        /\ \A m \in Nodes :
              (IsPrefix(m, Absolute(p)) /\ f[m].exists /\ f[m].repo) => Len(m) <= Len(n)

\* wrap_cmd_dir: spawning fails when git cannot be run or the directory is missing.
SpawnsIn(f, dir, env) == env.git # "absent" /\ Exists(f, dir)

NoCmd == <<>>

CmdIn(name, dir, status) ==
    [cmd |-> name, dir |-> dir, uri |-> "", to_path |-> NoPath,
     status |-> status, dest_empty |-> FALSE]

CmdClone(uri, to_path, status, empty) ==
    [cmd |-> "clone", dir |-> NoPath, uri |-> uri, to_path |-> to_path,
     status |-> status, dest_empty |-> empty]

\* stdout of `git rev-parse --is-inside-work-tree` run in p.
RevParseStdout(f, p) == IF InsideWorktree(f, p) THEN <<"true", "\n">> ELSE <<>>

RevParseCmd(f, p, env) ==
    CmdIn("rev-parse", p,
          IF ~SpawnsIn(f, p, env) THEN "spawn_error"
          ELSE IF InsideWorktree(f, p) THEN "success" ELSE "exit_failure")

\* Git::is_inside_worktree
\* (variant: the output is parsed without being trimmed)
IsInsideWorktreeNoTrim(f, repo_path, env) ==
    IF SpawnsIn(f, repo_path, env)
    THEN LET parsed == ParseBool(RevParseStdout(f, repo_path))
         IN  parsed.ok /\ parsed.value
    ELSE FALSE

IsInsideWorktree(f, repo_path, env) ==
    IF SpawnsIn(f, repo_path, env)
    THEN LET parsed == ParseBool(Trim(RevParseStdout(f, repo_path)))
         IN  parsed.ok /\ parsed.value
    ELSE FALSE

\* stdout of `git remote get-url origin` run in p.
GetUrlStdout(f, p) ==
    IF InsideWorktree(f, p) /\ f[WorktreeRoot(f, p)].origin # None
    THEN <<f[WorktreeRoot(f, p)].origin[1], "\n">>
    ELSE <<>>

GetUrlCmd(f, p, env) ==
    CmdIn("remote get-url", p,
          IF ~SpawnsIn(f, p, env) THEN "spawn_error"
          ELSE IF GetUrlStdout(f, p) # <<>> THEN "success" ELSE "exit_failure")

\* Git::get_remote_url("origin", repo_path)
GetRemoteUrl(f, repo_path, env) ==
    IF ~SpawnsIn(f, repo_path, env)
    THEN [ok |-> FALSE, value |-> None]
    ELSE LET remote == Trim(GetUrlStdout(f, repo_path))
         IN  IF remote = <<>> THEN [ok |-> TRUE, value |-> None]
             ELSE [ok |-> TRUE, value |-> Some(remote[1])]

\* git clone succeeds only with a transportable remote into a destination
\* that is absent or an empty directory.
CloneCanSucceed(f, uri, to_path, env) ==
    /\ env.git = "ok" /\ env.io
    /\ ParseUri(uri).ok /\ ParseUri(uri).scheme \in GitTransportable
    /\ Absolute(to_path) \in Nodes
    /\ ~(Exists(f, to_path) /\ NonEmpty(f, Absolute(to_path)))

CloneStatus(f, uri, to_path, env) ==
    IF env.git = "absent" THEN "spawn_error"
    ELSE IF CloneCanSucceed(f, uri, to_path, env) THEN "success"
    ELSE "exit_failure"

ClonedRepo(uri) ==
    [exists |-> TRUE, files |-> TRUE, repo |-> TRUE, origin |-> Some(GitReports(uri))]

\* Git::clone: Err only when the process cannot be spawned (wrap_cmd returns
\* Ok(output) whatever the exit status).
GitClone(f, uri, to_path, env) ==
    LET status == CloneStatus(f, uri, to_path, env)
        empty  == Exists(f, to_path) /\ ~NonEmpty(f, Absolute(to_path))
    IN  [ok  |-> status # "spawn_error",
         cmd |-> CmdClone(uri, to_path, status, empty),
         fs  |-> IF status = "success"
                 THEN [n \in Nodes |->
                         IF n = Absolute(to_path) THEN ClonedRepo(uri)
                         ELSE IF IsPrefix(n, Absolute(to_path)) /\ ~f[n].exists
                              THEN EmptyDir ELSE f[n]]
                 ELSE f]

(***************************************************************************)
(* Results: Result<GitRepo, GitRepoError>, or a panic.                     *)
(***************************************************************************)
Res(tag, kind, root_path, remote, url, repo_path, source) ==
    [tag |-> tag, kind |-> kind, root_path |-> root_path, remote_url |-> remote,
     url |-> url, repo_path |-> repo_path, source |-> source]

NoResult == Res("None", "", NoPath, None, "", NoPath, "")
OkUnit == Res("Ok", "()", NoPath, None, "", NoPath, "")
OkRepo(root_path, remote) == Res("Ok", "GitRepo", root_path, remote, "", NoPath, "")
ErrClone(remote_url, repo_path, source) ==
    Res("Err", "CloneError", NoPath, None, remote_url, repo_path, source)
ErrRepoCheck(source) == Res("Err", "RepoCheck", NoPath, None, "", NoPath, source)
ErrPathExpansion == Res("Err", "RepoPathExpansionError", NoPath, None, "", NoPath, "io::Error")
ErrAlreadyExists(path) == Res("Err", "AlreadyExistsError", NoPath, None, "", path, "")
ErrInvalidUrl(url) == Res("Err", "InvalidGitRemoteUrl", NoPath, None, url, NoPath, "")
ErrInit == Res("Err", "GitCmdError::InitError", NoPath, None, "", NoPath, "io::Error")
Panic(why) == Res("Panic", why, NoPath, None, "", NoPath, "")

AssertTilde == "repo_path must be absoloute or relative, ~ is not supported"
Todo == "not yet implemented"

Out(f, r, c) == [fs |-> f, result |-> r, cmds |-> c]

(***************************************************************************)
(* GitRepo (git_lib/src/repo.rs).                                          *)
(***************************************************************************)
\* GitRepo::from_existing, started with the command log `log`.
FromExistingFrom(f, repo_path, env, log) ==
    IF ContainsTilde(repo_path) THEN Out(f, Panic(AssertTilde), log)
    ELSE
    LET expanded == Canonicalize(f, repo_path) IN
    IF ~expanded.ok THEN Out(f, ErrPathExpansion, log)
    ELSE
    LET log1 == Append(log, RevParseCmd(f, expanded.path, env)) IN
    IF IsInsideWorktree(f, expanded.path, env)
    THEN LET remote == GetRemoteUrl(f, expanded.path, env)
             log2   == Append(log1, GetUrlCmd(f, expanded.path, env))
         IN  IF remote.ok
             THEN Out(f, OkRepo(expanded.path, remote.value), log2)
             ELSE Out(f, ErrRepoCheck("GitCmdError::IsRepositoryIo"), log2)
    ELSE Out(f, Panic(Todo), log1)

FromExisting(f, repo_path, env) == FromExistingFrom(f, repo_path, env, NoCmd)

\* The tail shared by from_url and from_url_force: clone, then from_existing.
\* (variant: a clone that did not succeed is run a second time)
CloneThenInspectRetry(f, remote_url, to_path, expanded_path, env, log) ==
    LET first  == GitClone(f, remote_url, to_path, env)
        again  == first.cmd.status # "success"
        cloned == IF again THEN GitClone(first.fs, remote_url, to_path, env) ELSE first
        log1   == IF again THEN log \o <<first.cmd, cloned.cmd>>
                  ELSE Append(log, first.cmd)
    IN  IF ~cloned.ok
        THEN Out(f, ErrClone(remote_url, expanded_path, "GitCmdError::Clone"), log1)
        ELSE FromExistingFrom(cloned.fs, to_path, env, log1)

CloneThenInspect(f, remote_url, to_path, expanded_path, env, log) ==
    LET cloned == GitClone(f, remote_url, to_path, env)
        log1   == Append(log, cloned.cmd)
    IN  IF ~cloned.ok
        THEN Out(f, ErrClone(remote_url, expanded_path, "GitCmdError::Clone"), log1)
        ELSE FromExistingFrom(cloned.fs, to_path, env, log1)

\* GitRepo::from_url
FromUrl(f, remote_url, to_path, env) ==
    IF ContainsTilde(to_path) THEN Out(f, Panic(AssertTilde), NoCmd)
    ELSE
    LET made == IF ~Exists(f, to_path) THEN CreateDirAll(f, to_path, env)
                ELSE [ok |-> TRUE, fs |-> f]
    IN
    IF ~made.ok THEN Out(made.fs, ErrPathExpansion, NoCmd)
    ELSE
    LET expanded == Canonicalize(made.fs, to_path) IN
    IF ~expanded.ok THEN Out(made.fs, ErrPathExpansion, NoCmd)
    ELSE
    LET log == <<RevParseCmd(made.fs, expanded.path, env)>> IN
    IF IsInsideWorktree(made.fs, expanded.path, env)
    THEN Out(made.fs, ErrAlreadyExists(expanded.path), log)
    ELSE CloneThenInspect(made.fs, remote_url, to_path, expanded.path, env, log)

\* GitRepo::from_url_force
\* (variant: an existing destination is not removed)
FromUrlForceKeepsContents(f, remote_url, to_path, env) ==
    IF ContainsTilde(to_path) THEN Out(f, Panic(AssertTilde), NoCmd)
    ELSE
    LET made == IF ~Exists(f, to_path) THEN CreateDirAll(f, to_path, env)
                ELSE [ok |-> TRUE, fs |-> f]
    IN
    IF ~made.ok THEN Out(made.fs, ErrPathExpansion, NoCmd)
    ELSE
    LET expanded == Canonicalize(made.fs, to_path) IN
    IF ~expanded.ok THEN Out(made.fs, ErrPathExpansion, NoCmd)
    ELSE CloneThenInspect(made.fs, remote_url, to_path, expanded.path, env, NoCmd)

FromUrlForce(f, remote_url, to_path, env) ==
    IF ContainsTilde(to_path) THEN Out(f, Panic(AssertTilde), NoCmd)
    ELSE
    LET removed == IF ~Exists(f, to_path) THEN [ok |-> TRUE, fs |-> f]
                   ELSE RemoveDirAll(f, to_path, env)
        made    == IF removed.ok THEN CreateDirAll(removed.fs, to_path, env)
                   ELSE [ok |-> FALSE, fs |-> removed.fs]
    IN
    IF ~made.ok THEN Out(made.fs, ErrPathExpansion, NoCmd)
    ELSE
    LET expanded == Canonicalize(made.fs, to_path) IN
    IF ~expanded.ok THEN Out(made.fs, ErrPathExpansion, NoCmd)
    ELSE CloneThenInspect(made.fs, remote_url, to_path, expanded.path, env, NoCmd)

\* One iteration of the loop of GitRepo::from_url_multi: the value pushed
\* for remote_url (a panic of from_url unwinds through the loop).
\* (variant: a remote that does not parse is cloned into the root itself)
FromUrlMultiItemNoElse(f, remote_url, root, env) ==
    LET parsed_uri == ParseUri(remote_url) IN
    IF parsed_uri.ok
    THEN FromUrl(f, remote_url, Join(root, parsed_uri.name), env)
    ELSE FromUrl(f, remote_url, root, env)

\* (variant: the repository name is not joined to the root)
FromUrlMultiItemNoJoin(f, remote_url, root, env) ==
    LET parsed_uri == ParseUri(remote_url) IN
    IF parsed_uri.ok
    THEN FromUrl(f, remote_url, root, env)
    ELSE Out(f, ErrInvalidUrl(remote_url), NoCmd)

\* (variant: the item is cloned with from_url_force)
FromUrlMultiItemForce(f, remote_url, root, env) ==
    LET parsed_uri == ParseUri(remote_url) IN
    IF parsed_uri.ok
    THEN FromUrlForce(f, remote_url, Join(root, parsed_uri.name), env)
    ELSE Out(f, ErrInvalidUrl(remote_url), NoCmd)

FromUrlMultiItem(f, remote_url, root, env) ==
    LET parsed_uri == ParseUri(remote_url) IN
    IF parsed_uri.ok
    THEN FromUrl(f, remote_url, Join(root, parsed_uri.name), env)
    ELSE Out(f, ErrInvalidUrl(remote_url), NoCmd)

\* Git::init
GitInit(f, path, env) ==
    IF ~SpawnsIn(f, path, env) THEN Out(f, ErrInit, <<CmdIn("init", path, "spawn_error")>>)
    ELSE Out(IF InsideWorktree(f, path) /\ WorktreeRoot(f, path) = Absolute(path)
             THEN f
             ELSE [f EXCEPT ![Absolute(path)].repo = TRUE],
             OkUnit, <<CmdIn("init", path, "success")>>)

\* Git::add_remote("origin", remote_url, repo_path)
GitAddRemote(f, remote_url, repo_path, env) ==
    IF ~SpawnsIn(f, repo_path, env)
    THEN Out(f, ErrInit, <<CmdIn("remote add", repo_path, "spawn_error")>>)
    ELSE IF InsideWorktree(f, repo_path) /\ f[WorktreeRoot(f, repo_path)].origin = None
         THEN Out([f EXCEPT ![WorktreeRoot(f, repo_path)].origin = Some(remote_url)],
                  OkUnit, <<CmdIn("remote add", repo_path, "success")>>)
         ELSE Out(f, OkUnit, <<CmdIn("remote add", repo_path, "exit_failure")>>)

(***************************************************************************)
(* State machine.                                                          *)
(***************************************************************************)
Call(name, remote_url, path, env) ==
    [name |-> name, remote_url |-> remote_url, path |-> path, env |-> env]

NoCall == Call("none", "", NoPath, [io |-> TRUE, git |-> "ok"])

Repo(files, origin) == [exists |-> TRUE, files |-> files, repo |-> TRUE, origin |-> origin]
FilesDir == [exists |-> TRUE, files |-> TRUE, repo |-> FALSE, origin |-> None]

\* The directory states a filesystem starts with.
InitNodeStates ==
    {AbsentNode, EmptyDir, FilesDir}
        \cup {Repo(fl, o) : fl \in BOOLEAN, o \in {None, Some(REPO_CLONE_SSH)}}

\* A directory exists only inside an existing directory.
WellFormed(f) == \A n \in Nodes : f[n].exists => f[Cwd].exists

InitFs ==
    {f \in [Nodes -> InitNodeStates] :
        WellFormed(f) /\ f[Cwd \o <<"actions">>] = AbsentNode}

\* The filesystems a batch starts with.
InitFsMulti ==
    {f \in [Nodes -> InitNodeStates] :
        /\ f[Cwd] \in {EmptyDir, Repo(FALSE, None)}
        /\ f[Cwd \o <<"git_repo">>] \in {AbsentNode, Repo(TRUE, Some(REPO_CLONE_SSH))}
        /\ f[Cwd \o <<"actions">>] = AbsentNode}

InitRest ==
    /\ call = NoCall
    /\ result = NoResult
    /\ cmds = NoCmd
    /\ remote_urls = <<>>
    /\ to_root_path = NoPath
    /\ repo_results = <<>>
    /\ pc = "idle"

Init == fs \in InitFs /\ pre = fs /\ InitRest

InitMulti == fs \in InitFsMulti /\ pre = fs /\ InitRest

Perform(c, out) ==
    /\ call' = c
    /\ pre' = fs
    /\ fs' = out.fs
    /\ result' = out.result
    /\ cmds' = out.cmds

\* A caller invokes GitRepo::from_url.
CallFromUrl ==
    \E r \in SingleRemotes, p \in SinglePaths, e \in Envs :
        /\ Perform(Call("from_url", r, p, e), FromUrl(fs, r, p, e))
        /\ UNCHANGED <<remote_urls, to_root_path, repo_results, pc>>

\* A caller invokes GitRepo::from_url_force.
CallFromUrlForce ==
    \E r \in SingleRemotes, p \in SinglePaths, e \in Envs :
        /\ Perform(Call("from_url_force", r, p, e), FromUrlForce(fs, r, p, e))
        /\ UNCHANGED <<remote_urls, to_root_path, repo_results, pc>>

\* A caller invokes GitRepo::from_existing.
CallFromExisting ==
    \E p \in SinglePaths, e \in Envs :
        /\ Perform(Call("from_existing", "", p, e), FromExisting(fs, p, e))
        /\ UNCHANGED <<remote_urls, to_root_path, repo_results, pc>>

\* A caller invokes Git::init on a directory.
CallGitInit ==
    \E p \in {Cwd, Cwd \o <<"git_repo">>}, e \in Envs :
        /\ Perform(Call("init", "", p, e), GitInit(fs, p, e))
        /\ UNCHANGED <<remote_urls, to_root_path, repo_results, pc>>

\* A caller invokes Git::add_remote("origin", ...).
CallGitAddRemote ==
    \E p \in {Cwd, Cwd \o <<"git_repo">>}, e \in Envs :
        /\ Perform(Call("add_remote", REPO_CLONE_SSH, p, e),
                   GitAddRemote(fs, REPO_CLONE_SSH, p, e))
        /\ UNCHANGED <<remote_urls, to_root_path, repo_results, pc>>

Batches == UNION {[1..n -> MultiRemotes] : n \in 0..MaxBatch}

\* from_url_multi is entered: repo_results = vec![].
MultiStart ==
    /\ pc \in {"idle", "returned", "panicked"}
    /\ \E b \in Batches, root \in RootPaths :
        /\ remote_urls' = b
        /\ to_root_path' = root
    /\ repo_results' = <<>>
    /\ pc' = "loop"
    /\ call' = NoCall
    /\ result' = NoResult
    /\ cmds' = NoCmd
    /\ pre' = fs
    /\ UNCHANGED fs

\* One iteration of the for loop.
MultiItem ==
    /\ pc = "loop"
    /\ Len(repo_results) < Len(remote_urls)
    /\ \E e \in Envs :
        LET remote_url == remote_urls[Len(repo_results) + 1]
            out == FromUrlMultiItem(fs, remote_url, to_root_path, e)
        IN  /\ Perform(Call("from_url_multi", remote_url, to_root_path, e), out)
            /\ IF out.result.tag = "Panic"
               THEN pc' = "panicked" /\ UNCHANGED repo_results
               ELSE pc' = "loop" /\ repo_results' = Append(repo_results, out.result)
    /\ UNCHANGED <<remote_urls, to_root_path>>

\* The loop is over: repo_results is returned.
MultiReturn ==
    /\ pc = "loop"
    /\ Len(repo_results) = Len(remote_urls)
    /\ pc' = "returned"
    /\ UNCHANGED <<fs, pre, call, result, cmds, remote_urls, to_root_path, repo_results>>

Next ==
    \/ CallFromUrl
    \/ CallFromUrlForce
    \/ CallFromExisting
    \/ CallGitInit
    \/ CallGitAddRemote

Spec == Init /\ [][Next]_vars

NextMulti ==
    \/ MultiStart
    \/ MultiItem
    \/ MultiReturn

SpecMulti == InitMulti /\ [][NextMulti]_vars

\* A program that clones: it either calls from_url and from_url_force, one
\* call after the other, or runs batches; a batch is never interleaved with
\* another call, the library having no threads and no state shared between
\* calls but the filesystem.
OnlyFromUrl == pc = "idle" /\ CallFromUrl

OnlyFromUrlForce == pc = "idle" /\ CallFromUrlForce

OnlyMultiStart == ~(call.name \in {"from_url", "from_url_force"}) /\ MultiStart

NextClone ==
    \/ OnlyFromUrl
    \/ OnlyFromUrlForce
    \/ OnlyMultiStart
    \/ MultiItem
    \/ MultiReturn

SpecClone == InitMulti /\ [][NextClone]_vars

TypeOK ==
    /\ fs \in [Nodes -> [exists : BOOLEAN, files : BOOLEAN, repo : BOOLEAN,
                         origin : {None} \cup {Some(u) : u \in Remotes \cup {"/actions"}}]]
    /\ WellFormed(fs)
    /\ \A n \in Nodes : ~fs[n].exists => fs[n] = AbsentNode
    /\ \A n \in Nodes : ~fs[n].repo => fs[n].origin = None
    /\ pc \in {"idle", "loop", "returned", "panicked"}
    /\ Len(repo_results) <= Len(remote_urls)

(***************************************************************************)
(* Properties.                                                             *)
(***************************************************************************)
\* The path has a '~' component (stated apart from the code's own test).
TildePath(p) == \E i \in DOMAIN p : p[i] = "~"

CloneCmds == {i \in DOMAIN cmds : cmds[i].cmd = "clone"}

SingleClone == call.name \in {"from_url", "from_url_force"}

\* The destination of the i-th item of the batch.
ItemDest(i) == Absolute(Join(to_root_path, ParseUri(remote_urls[i]).name))

\* Slot i of repo_results is an outcome of the i-th input remote.
SlotIsFor(i) ==
    LET s == repo_results[i]
        u == remote_urls[i]
    IN  CASE s.kind = "GitRepo"             -> ParseUri(u).ok /\ s.root_path = ItemDest(i)
          [] s.kind = "CloneError"          -> ParseUri(u).ok /\ s.url = u /\ s.repo_path = ItemDest(i)
          [] s.kind = "AlreadyExistsError"  -> ParseUri(u).ok /\ s.repo_path = ItemDest(i)
          [] s.kind = "InvalidGitRemoteUrl" -> s.url = u
          [] OTHER -> ParseUri(u).ok /\ s.kind \in {"RepoPathExpansionError", "RepoCheck"}

BatchOver == pc \in {"returned", "panicked"}

\* C1: whatever the remotes and the (tilde-free) root, from_url_multi returns
\* a vector as long as its input whose i-th entry is the outcome of the i-th
\* remote, however many items fail.
C1_LengthAndOrder ==
    (BatchOver /\ ~TildePath(to_root_path)) =>
        /\ pc = "returned"
        /\ Len(repo_results) = Len(remote_urls)
        /\ \A i \in DOMAIN repo_results : SlotIsFor(i)

\* C2: in from_url_multi an item that fails (normalisation, destination
\* already a repository, canonicalisation, external clone) does not end the
\* batch and is not propagated: the failure is the item's own result slot.
C2_FailureStaysInSlot ==
    (call.name = "from_url_multi" /\ ~TildePath(to_root_path) /\ result.tag # "Ok") =>
        /\ pc # "panicked"
        /\ result.tag = "Err"
        /\ repo_results # <<>>
        /\ repo_results[Len(repo_results)] = result

\* The item just handled was refused as InvalidGitRemoteUrl without touching
\* the filesystem or git, and the batch goes on.
RefusedAsInvalid ==
    /\ pc # "panicked"
    /\ repo_results # <<>>
    /\ repo_results[Len(repo_results)] = ErrInvalidUrl(call.remote_url)
    /\ fs = pre
    /\ cmds = NoCmd

RefusedUntouched ==
    /\ result = ErrAlreadyExists(Absolute(call.path))
    /\ CloneCmds = {}
    /\ fs = pre

\* C4 (as stated): from_url with a destination inside a Git working tree
\* returns AlreadyExistsError, never invokes the clone and leaves the
\* filesystem as it was.
C4_AlreadyExistsNoChange ==
    (call.name = "from_url" /\ ~TildePath(call.path) /\ InsideWorktree(pre, call.path)) =>
        RefusedUntouched

\* C4 (amended): from_url with an existing destination inside a working tree,
\* git being runnable, returns AlreadyExistsError, never invokes the clone and
\* leaves the filesystem as it was; with a destination inside a working tree
\* in any case, no existing directory is modified (at most the missing
\* destination is created, empty).
C4_ExistingDestinationNoChange ==
    (call.name = "from_url" /\ ~TildePath(call.path) /\ InsideWorktree(pre, call.path)) =>
        /\ (Exists(pre, call.path) /\ call.env.git # "absent") => RefusedUntouched
        /\ \A n \in Nodes : IF pre[n].exists THEN fs[n] = pre[n]
                            ELSE fs[n] \in {AbsentNode, EmptyDir}

C4_Witness ==
    /\ call.name = "from_url"
    /\ Exists(pre, call.path)
    /\ InsideWorktree(pre, call.path)
    /\ call.env.git # "absent"
    /\ result.kind = "AlreadyExistsError"

\* C5: when the external clone command fails during from_url or
\* from_url_force (git cannot be run, or runs and reports failure), the
\* operation returns CloneError with the remote string, the canonicalised
\* destination and the command failure.
C5_CloneFailureIsCloneError ==
    (SingleClone /\ \E i \in CloneCmds : cmds[i].status # "success") =>
        result = ErrClone(call.remote_url, Absolute(call.path), "GitCmdError::Clone")

\* C6: from_url, from_url_force and from_existing panic on a path containing
\* '~', before any directory is created or removed and before any external
\* command is invoked.
C6_TildePanicsFirst ==
    ( /\ call.name \in {"from_url", "from_url_force", "from_existing"}
      /\ TildePath(call.path) ) =>
        /\ result = Panic(AssertTilde)
        /\ fs = pre
        /\ cmds = NoCmd

C6_Witness ==
    /\ call.name = "from_url_force"
    /\ TildePath(call.path)
    /\ result.tag = "Panic"
    /\ \E n \in Nodes : NonEmpty(pre, n)

\* The nodes strictly below the destination of the last call.
Below(p) == {n \in Nodes : n # Absolute(p) /\ IsPrefix(Absolute(p), n)}

\* C7: from_url_force on an existing non-empty destination never returns
\* AlreadyExistsError; whenever it invokes the clone, the destination's prior
\* contents are gone and the destination is an empty directory; and when the
\* clone succeeds it returns the handle of the fresh clone.
C7_ForceRemovesThenClones ==
    ( /\ call.name = "from_url_force"
      /\ ~TildePath(call.path)
      /\ Exists(pre, call.path)
      /\ NonEmpty(pre, Absolute(call.path)) ) =>
        /\ result.kind # "AlreadyExistsError"
        /\ \A i \in CloneCmds :
              /\ cmds[i].dest_empty
              /\ \A n \in Below(call.path) : fs[n] = AbsentNode
              /\ fs[Absolute(call.path)] \in {EmptyDir, ClonedRepo(call.remote_url)}
              /\ cmds[i].status = "success" =>
                    /\ fs[Absolute(call.path)] = ClonedRepo(call.remote_url)
                    /\ result = OkRepo(Absolute(call.path),
                                       Some(GitReports(call.remote_url)))

\* A forced clone over an existing repository that succeeded.
C7_Witness ==
    /\ call.name = "from_url_force"
    /\ Exists(pre, call.path)
    /\ pre[Absolute(call.path)].repo
    /\ pre[Absolute(call.path)].origin # Some(GitReports(call.remote_url))
    /\ \E i \in CloneCmds : cmds[i].status = "success"
    /\ result.tag = "Ok"

\* C8: after a successful from_url or from_url_force, the handle's remote_url
\* is the origin URL git reports for the repository just cloned into the
\* destination, and its root_path exists.
C8_HandleOfTheClone ==
    (SingleClone /\ result.tag = "Ok") =>
        /\ result.root_path = Absolute(call.path)
        /\ fs[result.root_path] = ClonedRepo(call.remote_url)
        /\ result.remote_url = Some(GitReports(call.remote_url))

\* C9: from_existing returns a handle only for a path inside a working tree;
\* the handle's root_path is the canonical absolute form of the path and its
\* remote_url the configured origin URL, None when there is none.
C9_HandleOnlyInsideWorktree ==
    (call.name = "from_existing") =>
        /\ result.tag = "Ok" =>
              /\ InsideWorktree(pre, call.path)
              /\ result.root_path = Absolute(call.path)
              /\ result.remote_url = pre[WorktreeRoot(pre, call.path)].origin
        /\ (~TildePath(call.path) /\ ~InsideWorktree(pre, call.path)) => result.tag # "Ok"

\* A handle for a relative path below the root of a working tree with an origin.
C9_Witness ==
    /\ call.name = "from_existing"
    /\ ~IsAbsolute(call.path)
    /\ result.tag = "Ok"
    /\ result.remote_url # None
    /\ WorktreeRoot(pre, call.path) # Absolute(call.path)

\* C10: from_existing on a path (without '~') that cannot be canonicalised
\* returns RepoPathExpansionError, before any external git command is invoked.
C10_MissingPathIsExpansionError ==
    (call.name = "from_existing" /\ ~TildePath(call.path) /\ ~Exists(pre, call.path)) =>
        /\ result = ErrPathExpansion
        /\ cmds = NoCmd
        /\ fs = pre

C10_Witness ==
    /\ call.name = "from_existing"
    /\ ~TildePath(call.path)
    /\ ~Exists(pre, call.path)
    /\ result.kind = "RepoPathExpansionError"

\* The destination from_url_multi derives for the item just handled.
LastItemDest == Join(to_root_path, ParseUri(call.remote_url).name)

\* What the item just handled shows of the arguments from_url was given:
\* the clone command's remote and destination, the directory the probes ran
\* in, and the remote and paths carried by the result.
LastItemArguments ==
    /\ \A i \in DOMAIN cmds :
          IF cmds[i].cmd = "clone"
          THEN cmds[i].uri = call.remote_url /\ cmds[i].to_path = LastItemDest
          ELSE cmds[i].dir = Absolute(LastItemDest)
    /\ result.kind = "CloneError" =>
          result.url = call.remote_url /\ result.repo_path = Absolute(LastItemDest)
    /\ result.kind = "AlreadyExistsError" => result.repo_path = Absolute(LastItemDest)
    /\ result.kind = "GitRepo" => result.root_path = Absolute(LastItemDest)
    /\ \A n \in Nodes \ {Absolute(LastItemDest)} : fs[n] = pre[n]

\* C11 (as stated): after the batch, the subdirectory root/name exists for
\* every remote that normalises.
C11_SubdirectoryExists ==
    (pc = "returned") =>
        \A i \in DOMAIN remote_urls :
            ParseUri(remote_urls[i]).ok => fs[ItemDest(i)].exists

\* C11 (amended): for every remote that normalises, from_url is invoked with
\* the unmodified remote string and the destination root/name; after the
\* item, and after the batch, that subdirectory exists unless creating it
\* failed, which the item's slot reports as RepoPathExpansionError.
C11_ItemCloneArguments ==
    /\ ( /\ call.name = "from_url_multi"
         /\ ParseUri(call.remote_url).ok
         /\ ~TildePath(to_root_path) ) =>
            /\ LastItemArguments
            /\ result.kind # "RepoPathExpansionError" => fs[Absolute(LastItemDest)].exists
            /\ result.kind = "RepoPathExpansionError" => fs = pre /\ cmds = NoCmd
    /\ (pc = "returned") =>
          \A i \in DOMAIN remote_urls :
              (ParseUri(remote_urls[i]).ok
                  /\ repo_results[i].kind # "RepoPathExpansionError")
                  => fs[ItemDest(i)].exists

\* A returned batch of two remotes with different names, one cloned, both
\* subdirectories in place, neither of which existed before.
C11_Witness ==
    /\ pc = "returned"
    /\ Len(repo_results) = MaxBatch
    /\ \E i, j \in DOMAIN repo_results :
          /\ ItemDest(i) # ItemDest(j)
          /\ repo_results[i].kind = "GitRepo"
          /\ repo_results[i].remote_url = Some(remote_urls[i])
          /\ repo_results[j].tag = "Err"
          /\ ParseUri(remote_urls[j]).ok
          /\ fs[ItemDest(i)].exists /\ fs[ItemDest(j)].exists
          /\ ~pre[ItemDest(j)].exists

\* Items i and j of the batch were both given a destination.
BothNormalize(i, j) ==
    i # j /\ ParseUri(remote_urls[i]).ok /\ ParseUri(remote_urls[j]).ok

\* C12 (as stated): any two items of a batch have distinct destination paths,
\* also when two remotes share a repository name or a remote appears twice.
C12_DistinctDestinations ==
    \A i, j \in DOMAIN repo_results :
        BothNormalize(i, j) => ItemDest(i) # ItemDest(j)

\* C12 (amended): two items have the same destination exactly when their
\* remotes normalise to the same name. An item still never clobbers what is
\* there: it leaves every non-empty directory as it found it, a repository
\* cloned by an earlier item is intact whatever follows, and a later item
\* with the same destination ends as an error, never as a second clone.
C12_SharedDestinationNotClobbered ==
    /\ \A i, j \in DOMAIN remote_urls :
          BothNormalize(i, j) =>
              (ItemDest(i) = ItemDest(j)
                  <=> ParseUri(remote_urls[i]).name = ParseUri(remote_urls[j]).name)
    /\ call.name = "from_url_multi" =>
          \A n \in Nodes : (pre[n].exists /\ NonEmpty(pre, n)) => fs[n] = pre[n]
    /\ \A i \in DOMAIN repo_results :
          repo_results[i].kind = "GitRepo" =>
              /\ fs[ItemDest(i)] = ClonedRepo(remote_urls[i])
              /\ \A j \in DOMAIN repo_results :
                    (i < j /\ BothNormalize(i, j) /\ ItemDest(j) = ItemDest(i)) =>
                        /\ repo_results[j].tag = "Err"
                        /\ repo_results[j].kind \in
                              {"AlreadyExistsError", "CloneError", "RepoPathExpansionError"}

\* A returned batch of two different remotes with the same name: the first
\* was cloned, the second was refused because the destination is now a
\* repository, and no command of the second item touched it.
C12_Witness ==
    /\ pc = "returned"
    /\ Len(repo_results) = MaxBatch
    /\ \E i, j \in DOMAIN repo_results :
          /\ i < j
          /\ remote_urls[i] # remote_urls[j]
          /\ ItemDest(i) = ItemDest(j)
          /\ repo_results[i].kind = "GitRepo"
          /\ repo_results[j].kind = "AlreadyExistsError"
          /\ repo_results[j].repo_path = ItemDest(i)
          /\ CloneCmds = {}
          /\ fs[ItemDest(i)] = ClonedRepo(remote_urls[i])

\* The call just made is one that may clone.
CloningCall == SingleClone \/ call.name = "from_url_multi"

\* The position in remote_urls of the batch item just handled.
LastItemIndex == IF pc = "panicked" THEN Len(repo_results) + 1 ELSE Len(repo_results)

====
